---- MODULE Spec2Model ----
(***************************************************************************)
(* Hook lifecycle of the BurntSushi controller (src/burnt-sushi/src/main.rs)*)
(*                                                                         *)
(* The controller is one cooperative task.  `pc` is its position; the      *)
(* positions "idle", "u_join", "load_filter" and "load_blocker" are its    *)
(* .await suspension points, where the select! of run() may drop the loop  *)
(* future.  Every .unwrap() / todo!() of the source is a step to           *)
(* "panicked".  Target processes, the injected modules inside them and the *)
(* RPC thread live outside the controller and move on their own.           *)
(***************************************************************************)
EXTENDS Integers, FiniteSets, Sequences, TLC

\* ---- bounds ----
MaxProcs  == 2      \* target process instances that ever start
MaxStale  == 2      \* leftover payload modules a target may start with
MaxEvents == 3      \* presence values the scanner publishes

Procs == 1..MaxProcs

\* SyringeError as matched in unhook_spotify
ProcessInaccessible == "ProcessInaccessible"
ModuleInaccessible  == "ModuleInaccessible"
OtherError          == "OtherError"

\* SpotifyState: Stopped, or Running(p) written as p
Stopped == 0

\* AppState
Unhooked   == [tag |-> "Unhooked", proc |-> 0]
Hooked(p)  == [tag |-> "Hooked", proc |-> p]
NoHook     == [tag |-> "None", proc |-> 0]

VARIABLES
  procs,       \* p -> "new" | "alive" | "dead"
  stale,       \* p -> payload-named modules in p left by an earlier run
  ours,        \* p -> payload modules in p injected by this controller
  watch,       \* value of the spotify_state watch channel: Stopped or p
  changed,     \* watch holds a value the loop has not seen
  nEvents,     \* values published so far
  sig,         \* "none" | "ctrl_c" | "tray_exit"
  state,       \* App.state
  uLocal,      \* the `state` local of unhook_spotify (moved-out HookState)
  rpc_task,    \* thread behind the JoinHandle: "none" | "running" |
               \* "stopping" | "finished" | "faulted"
  detached,    \* RPC threads still running whose JoinHandle was dropped
  pc,          \* controller position
  ret,         \* caller of the running unhook_spotify: "loop"|"hook"|"stop"
  target,      \* process of the running hook_spotify (its syringe)
  result,      \* `result` of unhook_spotify
  panicAt,     \* position of the panic that ended the controller
  uStart,      \* AppState tag at entry of the latest unhook_spotify
  uOps,        \* operations the latest unhook_spotify performed
  hStart,      \* AppState tag at entry of the latest hook_spotify
  hOps,        \* operations the latest hook_spotify performed
  staleSeen,   \* leftover modules the target held at the first probe
  stopHooked,  \* AppState tag when the shutdown signal was observed
  resolver,    \* find_and_load_filter_config in progress: files, position, result
  inst,        \* controller instance -> position in main(), flags
  mutex        \* holder of the "BurntSushi SINGLETON MUTEX", 0 when free

ctlVars == <<procs, stale, ours, watch, changed, nEvents, sig, state, uLocal,
             rpc_task, detached, pc, ret, target, result, panicAt, uStart, uOps,
             hStart, hOps, staleSeen, stopHooked>>

auxVars == <<resolver, inst, mutex>>

vars == <<ctlVars, auxVars>>

envVars   == <<procs, stale, ours>>
watchVars == <<watch, changed, nEvents>>
histVars  == <<uStart, uOps, hStart, hOps, staleSeen, stopHooked>>

Terminated == pc \in {"exited", "panicked"}

\* Positions at which the controller task is suspended in an .await
SuspensionPoints == {"idle", "u_join", "load_filter", "load_blocker"}

\* run() is still inside its select!
InSelect == ~Terminated /\ ret # "stop" /\ pc # "stop_entry"

\* ---- find_and_load_filter_config ----
\* A filter file is "unset" (no such path: --filters not given, or
\* current_exe() failed), "absent" (read_to_string fails), "valid" or
\* "invalid" (toml::from_str fails).

FileStates == {"unset", "absent", "valid", "invalid"}

\* include_str!(OUT_DIR/filter.toml)
default_filter_bytes(r) == IF r.defValid THEN "valid" ELSE "invalid"

try_load_filter_config_from_str(content) ==
  IF content = "valid" THEN "Ok" ELSE "Err"

\* try_load_filter_config_from_path(Some(path), write_if_absent): the
\* result and the file afterwards
try_load_filter_config_from_path(file, write_if_absent, writable, default) ==
  IF file \in {"valid", "invalid"}
    THEN [out |-> try_load_filter_config_from_str(file), file |-> file]
  ELSE IF write_if_absent
    THEN IF writable
           THEN [out |-> try_load_filter_config_from_str(default), file |-> default]
           ELSE [out |-> "Err", file |-> file]
  ELSE [out |-> "Err", file |-> file]

\* Files and flags the resolver may meet, before its first step.
ResolverInputs ==
  {[ovr |-> o, ovr0 |-> o, ovrWritable |-> w, sib |-> s, sib0 |-> s,
    defValid |-> d, pos |-> "override", out |-> "pending", from |-> "none"] :
     o \in FileStates, w \in BOOLEAN, s \in FileStates, d \in BOOLEAN}

\* if let Some(config_path) = &ARGS.filters { .. (Some(config_path), true) .. }
OverrideStep(r) ==
  IF r.ovr = "unset" THEN [r EXCEPT !.pos = "sibling"]
  ELSE LET t == try_load_filter_config_from_path(r.ovr, TRUE, r.ovrWritable,
                                                 default_filter_bytes(r))
       IN IF t.out = "Ok"
            THEN [r EXCEPT !.ovr = t.file, !.pos = "done", !.out = "Ok",
                           !.from = "override"]
            ELSE [r EXCEPT !.ovr = t.file, !.pos = "sibling"]

\* Variant: the sibling layer also writes the default when the file is absent.
SiblingStep_WriteIfAbsent(r) ==
  IF r.sib = "unset" THEN [r EXCEPT !.pos = "default"]
  ELSE LET t == try_load_filter_config_from_path(r.sib, TRUE, TRUE,
                                                 default_filter_bytes(r))
       IN IF t.out = "Ok"
            THEN [r EXCEPT !.sib = t.file, !.pos = "done", !.out = "Ok",
                           !.from = "sibling"]
            ELSE [r EXCEPT !.sib = t.file, !.pos = "default"]

\* if let Some(sibling_path) = .. { .. (Some(&sibling_path), false) .. }
SiblingStep(r) ==
  IF r.sib = "unset" THEN [r EXCEPT !.pos = "default"]
  ELSE LET t == try_load_filter_config_from_path(r.sib, FALSE, TRUE,
                                                 default_filter_bytes(r))
       IN IF t.out = "Ok"
            THEN [r EXCEPT !.sib = t.file, !.pos = "done", !.out = "Ok",
                           !.from = "sibling"]
            ELSE [r EXCEPT !.sib = t.file, !.pos = "default"]

\* try_load_filter_config_from_path(None, false)
DefaultStep(r) ==
  IF try_load_filter_config_from_str(default_filter_bytes(r)) = "Ok"
    THEN [r EXCEPT !.pos = "done", !.out = "Ok", !.from = "default"]
    ELSE [r EXCEPT !.pos = "done", !.out = "Err"]

find_and_load_filter_config(r) ==
  LET a == OverrideStep(r)
      b == IF a.pos = "sibling" THEN SiblingStep(a) ELSE a
  IN IF b.pos = "default" THEN DefaultStep(b) ELSE b

\* No resolution in progress.
ResolverIdle ==
  [ovr |-> "unset", ovr0 |-> "unset", ovrWritable |-> FALSE, sib |-> "unset",
   sib0 |-> "unset", defValid |-> TRUE, pos |-> "done", out |-> "pending",
   from |-> "none"]

\* ---- main(): controller instances and the singleton mutex ----
MaxInstances == 3   \* controller instances started on the machine

Instances == 1..MaxInstances

\* No instance has been started.
InstIdle == [i \in Instances |-> [pc |-> "idle", ignore |-> FALSE, calls |-> FALSE]]

\* App::new
CtlInit ==
  /\ procs = [p \in Procs |-> "new"]
  /\ stale = [p \in Procs |-> 0]
  /\ ours = [p \in Procs |-> 0]
  /\ watch = Stopped
  /\ changed = FALSE
  /\ nEvents = 0
  /\ sig = "none"
  /\ state = Unhooked
  /\ uLocal = NoHook
  /\ rpc_task = "none"
  /\ detached = 0
  /\ pc = "idle"
  /\ ret = "none"
  /\ target = 0
  /\ result = "Ok"
  /\ panicAt = "none"
  /\ uStart = "none"
  /\ uOps = {}
  /\ hStart = "none"
  /\ hOps = {}
  /\ staleSeen = 0
  /\ stopHooked = "none"

Init ==
  /\ CtlInit
  /\ resolver = ResolverIdle
  /\ inst = InstIdle
  /\ mutex = 0

\* ---- helpers ----
Loaded(p) == stale[p] + ours[p]

\* Outcomes of an Injector call on process p; needModule: the call addresses
\* a module that must still be loaded.
InjectorOutcomes(p, needModule) ==
  IF procs[p] # "alive" THEN {ProcessInaccessible, OtherError}
  ELSE IF needModule /\ Loaded(p) = 0 THEN {ModuleInaccessible, OtherError}
  ELSE {"Ok", OtherError}

Panic(at) ==
  /\ pc' = "panicked"
  /\ panicAt' = at

\* Dropping a JoinHandle detaches a thread that is still running.
DropHandle ==
  /\ detached' = IF rpc_task \in {"running", "stopping"} THEN detached + 1 ELSE detached
  /\ rpc_task' = "none"

\* ---- environment: target processes, scanner, signals, RPC thread ----

\* A target process instance starts, carrying 0..MaxStale leftover modules.
ProcStart(p, n) ==
  /\ ~Terminated
  /\ procs[p] = "new"
  /\ \A q \in Procs : q < p => procs[q] # "new"
  /\ procs' = [procs EXCEPT ![p] = "alive"]
  /\ stale' = [stale EXCEPT ![p] = n]
  /\ UNCHANGED <<auxVars, ours, watchVars, sig, state, uLocal, rpc_task, detached, pc,
                 ret, target, result, panicAt, histVars>>

ProcExit(p) ==
  /\ ~Terminated
  /\ procs[p] = "alive"
  /\ procs' = [procs EXCEPT ![p] = "dead"]
  /\ UNCHANGED <<auxVars, stale, ours, watchVars, sig, state, uLocal, rpc_task, detached,
                 pc, ret, target, result, panicAt, histVars>>

\* The scanner sends a presence value.  App::run keeps the watch borrow
\* (line 201) for the whole match arm, so a send completes only while the
\* loop is parked in changed().await.
Publish(v) ==
  /\ pc = "idle"
  /\ nEvents < MaxEvents
  /\ IF v = Stopped THEN TRUE ELSE procs[v] = "alive"
  /\ watch' = v
  /\ changed' = TRUE
  /\ nEvents' = nEvents + 1
  /\ UNCHANGED <<auxVars, envVars, sig, state, uLocal, rpc_task, detached, pc, ret,
                 target, result, panicAt, histVars>>

\* Ctrl-C handler fires / the system tray exits.
Signal(s) ==
  /\ ~Terminated
  /\ sig = "none"
  /\ sig' = s
  /\ UNCHANGED <<auxVars, envVars, watchVars, state, uLocal, rpc_task, detached, pc, ret,
                 target, result, panicAt, histVars>>

\* rpc::run returns Ok after stop_rpc reached the payload.
TaskEnd ==
  /\ ~Terminated
  /\ rpc_task = "stopping"
  /\ rpc_task' = "finished"
  /\ UNCHANGED <<auxVars, envVars, watchVars, sig, state, uLocal, detached, pc, ret,
                 target, result, panicAt, histVars>>

\* The runtime cannot be built or rpc::run returns Err: the thread panics.
TaskFault ==
  /\ ~Terminated
  /\ rpc_task \in {"running", "stopping"}
  /\ rpc_task' = "faulted"
  /\ UNCHANGED <<auxVars, envVars, watchVars, sig, state, uLocal, detached, pc, ret,
                 target, result, panicAt, histVars>>

DetachedEnd ==
  /\ ~Terminated
  /\ detached > 0
  /\ detached' = detached - 1
  /\ UNCHANGED <<auxVars, envVars, watchVars, sig, state, uLocal, rpc_task, pc, ret,
                 target, result, panicAt, histVars>>

\* ---- Orchestrator: run() and App::run ----

\* Variant: a Running value is marked seen but not acted on.
LoopWake_SkipRunning ==
  /\ pc = "idle"
  /\ changed
  /\ changed' = FALSE
  /\ IF watch = Stopped
       THEN /\ pc' = "unhook_entry"
            /\ ret' = "loop"
            /\ UNCHANGED target
       ELSE UNCHANGED <<pc, target, ret>>
  /\ UNCHANGED <<auxVars, envVars, watch, nEvents, sig, state, uLocal, rpc_task, detached,
                 result, panicAt, histVars>>

\* changed().await resolves; the loop borrows the latest value and dispatches.
LoopWake ==
  /\ pc = "idle"
  /\ changed
  /\ changed' = FALSE
  /\ IF watch = Stopped
       THEN /\ pc' = "unhook_entry"
            /\ ret' = "loop"
            /\ UNCHANGED target
       ELSE /\ pc' = "hook_entry"
            /\ target' = watch
            /\ UNCHANGED ret
  /\ UNCHANGED <<auxVars, envVars, watch, nEvents, sig, state, uLocal, rpc_task, detached,
                 result, panicAt, histVars>>

\* Variant: the loop future is pre-empted at any position, not only where
\* it is suspended in an .await.
Cancel_AnyPoint ==
  /\ InSelect
  /\ sig # "none"
  /\ pc' = "stop_entry"
  /\ ret' = "none"
  /\ uLocal' = NoHook
  /\ IF uLocal # NoHook
       THEN DropHandle
       ELSE UNCHANGED <<rpc_task, detached>>
  /\ stopHooked' = state.tag
  /\ UNCHANGED <<auxVars, envVars, watchVars, sig, state, target, result, panicAt,
                 uStart, uOps, hStart, hOps, staleSeen>>

\* select! in run(): a shutdown branch completes while the loop future is
\* suspended; the future is dropped with its locals, then app.stop() starts.
Cancel ==
  /\ InSelect
  /\ sig # "none"
  /\ pc \in SuspensionPoints
  /\ pc' = "stop_entry"
  /\ ret' = "none"
  /\ uLocal' = NoHook
  /\ IF uLocal # NoHook
       THEN DropHandle
       ELSE UNCHANGED <<rpc_task, detached>>
  /\ stopHooked' = state.tag
  /\ UNCHANGED <<auxVars, envVars, watchVars, sig, state, target, result, panicAt,
                 uStart, uOps, hStart, hOps, staleSeen>>

\* App::stop
StopEntry ==
  /\ pc = "stop_entry"
  /\ IF state.tag = "Hooked"
       THEN pc' = "unhook_entry" /\ ret' = "stop"
       ELSE pc' = "exited" /\ UNCHANGED ret
  /\ UNCHANGED <<auxVars, envVars, watchVars, sig, state, uLocal, rpc_task, detached,
                 target, result, panicAt, histVars>>

\* ---- AppState::unhook_spotify ----

\* Variant: the HookState is copied out and App.state keeps it.
UnhookEntry_KeepState ==
  /\ pc = "unhook_entry"
  /\ uStart' = state.tag
  /\ uOps' = {}
  /\ UNCHANGED state
  /\ IF state.tag = "Hooked"
       THEN uLocal' = state /\ pc' = "u_getproc"
       ELSE UNCHANGED uLocal /\ pc' = "u_ret"
  /\ UNCHANGED <<auxVars, envVars, watchVars, sig, rpc_task, detached, ret, target,
                 result, panicAt, hStart, hOps, staleSeen, stopHooked>>

\* Variant: the stop_rpc lookup is made before the state is examined.
UnhookEntry_LookupFirst ==
  /\ pc = "unhook_entry"
  /\ uStart' = state.tag
  /\ uOps' = {"getproc"}
  /\ state' = Unhooked
  /\ IF state.tag = "Hooked"
       THEN uLocal' = state /\ pc' = "u_stop"
       ELSE UNCHANGED uLocal /\ pc' = "u_ret"
  /\ UNCHANGED <<auxVars, envVars, watchVars, sig, rpc_task, detached, ret, target,
                 result, panicAt, hStart, hOps, staleSeen, stopHooked>>

\* mem::replace(self, Unhooked); return when nothing was hooked.
UnhookEntry ==
  /\ pc = "unhook_entry"
  /\ uStart' = state.tag
  /\ uOps' = {}
  /\ state' = Unhooked
  /\ IF state.tag = "Hooked"
       THEN uLocal' = state /\ pc' = "u_getproc"
       ELSE UNCHANGED uLocal /\ pc' = "u_ret"
  /\ UNCHANGED <<auxVars, envVars, watchVars, sig, rpc_task, detached, ret, target,
                 result, panicAt, hStart, hOps, staleSeen, stopHooked>>

\* get_payload_procedure(payload, "stop_rpc")?.unwrap()
\* The payload answered the start_rpc lookup when it was hooked, so the
\* lookup either finds stop_rpc or fails with a SyringeError.
UGetProc ==
  /\ pc = "u_getproc"
  /\ uOps' = uOps \cup {"getproc"}
  /\ \E r \in InjectorOutcomes(uLocal.proc, TRUE) :
       IF r = "Ok"
         THEN pc' = "u_stop" /\ UNCHANGED result
         ELSE pc' = "u_match" /\ result' = r
  /\ UNCHANGED <<auxVars, envVars, watchVars, sig, state, uLocal, rpc_task, detached,
                 ret, target, panicAt, uStart, hStart, hOps, staleSeen, stopHooked>>

\* Variant: the liveness check follows the stop call without a join.
UStop_NoJoin ==
  /\ pc = "u_stop"
  /\ uOps' = uOps \cup {"stop"}
  /\ \E r \in InjectorOutcomes(uLocal.proc, TRUE) :
       IF r = "Ok"
         THEN /\ pc' = "u_alive"
              /\ rpc_task' = IF rpc_task = "running" THEN "stopping" ELSE rpc_task
              /\ UNCHANGED result
         ELSE /\ pc' = "u_match"
              /\ result' = r
              /\ UNCHANGED rpc_task
  /\ UNCHANGED <<auxVars, envVars, watchVars, sig, state, uLocal, detached, ret, target,
                 panicAt, uStart, hStart, hOps, staleSeen, stopHooked>>

\* stop_rpc.call()?
UStop ==
  /\ pc = "u_stop"
  /\ uOps' = uOps \cup {"stop"}
  /\ \E r \in InjectorOutcomes(uLocal.proc, TRUE) :
       IF r = "Ok"
         THEN /\ pc' = "u_join"
              /\ rpc_task' = IF rpc_task = "running" THEN "stopping" ELSE rpc_task
              /\ UNCHANGED result
         ELSE /\ pc' = "u_match"
              /\ result' = r
              /\ UNCHANGED rpc_task
  /\ UNCHANGED <<auxVars, envVars, watchVars, sig, state, uLocal, detached, ret, target,
                 panicAt, uStart, hStart, hOps, staleSeen, stopHooked>>

\* state.rpc_task.join().await.unwrap()
UJoin ==
  /\ pc = "u_join"
  /\ rpc_task \in {"finished", "faulted"}
  /\ rpc_task' = "none"
  /\ IF rpc_task = "finished"
       THEN pc' = "u_alive" /\ uOps' = uOps \cup {"join"} /\ UNCHANGED panicAt
       ELSE Panic("u_join") /\ uOps' = uOps \cup {"join"}
  /\ UNCHANGED <<auxVars, envVars, watchVars, sig, state, uLocal, detached, ret, target,
                 result, uStart, hStart, hOps, staleSeen, stopHooked>>

\* Variant: eject is called whatever is_alive() says.
UAlive_AlwaysEject ==
  /\ pc = "u_alive"
  /\ uOps' = uOps \cup (IF procs[uLocal.proc] = "alive"
                          THEN {"is_alive"} ELSE {"is_alive", "not_alive"})
  /\ pc' = "u_eject"
  /\ UNCHANGED result
  /\ UNCHANGED <<auxVars, envVars, watchVars, sig, state, uLocal, rpc_task, detached,
                 ret, target, panicAt, uStart, hStart, hOps, staleSeen, stopHooked>>

\* if state.payload.process().is_alive()
\* ("not_alive" records that the check answered false)
UAlive ==
  /\ pc = "u_alive"
  /\ uOps' = uOps \cup (IF procs[uLocal.proc] = "alive"
                          THEN {"is_alive"} ELSE {"is_alive", "not_alive"})
  /\ IF procs[uLocal.proc] = "alive"
       THEN pc' = "u_eject" /\ UNCHANGED result
       ELSE pc' = "u_match" /\ result' = "Ok"
  /\ UNCHANGED <<auxVars, envVars, watchVars, sig, state, uLocal, rpc_task, detached,
                 ret, target, panicAt, uStart, hStart, hOps, staleSeen, stopHooked>>

\* state.syringe.eject(state.payload.borrowed())?
UEject ==
  /\ pc = "u_eject"
  /\ uOps' = uOps \cup {"eject"}
  /\ pc' = "u_match"
  /\ \E r \in InjectorOutcomes(uLocal.proc, TRUE) :
       /\ result' = r
       /\ ours' = IF r = "Ok" /\ ours[uLocal.proc] > 0
                    THEN [ours EXCEPT ![uLocal.proc] = @ - 1]
                    ELSE ours
  /\ UNCHANGED <<auxVars, procs, stale, watchVars, sig, state, uLocal, rpc_task, detached,
                 ret, target, panicAt, uStart, hStart, hOps, staleSeen, stopHooked>>

\* Variant: only Ok passes the match, every error reaches todo!().
UMatch_OnlyOk ==
  /\ pc = "u_match"
  /\ IF result = "Ok"
       THEN /\ state' = Unhooked
            /\ uLocal' = NoHook
            /\ DropHandle
            /\ pc' = "u_ret"
            /\ UNCHANGED <<panicAt, uOps>>
       ELSE /\ Panic("u_match")
            /\ uOps' = uOps \cup {"error"}
            /\ UNCHANGED <<state, uLocal, rpc_task, detached>>
  /\ UNCHANGED <<auxVars, envVars, watchVars, sig, ret, target, result, uStart, hStart,
                 hOps, staleSeen, stopHooked>>

\* match result { Ok | ProcessInaccessible | ModuleInaccessible => {}, _ => todo!() }
\* then *self = Unhooked and the moved-out HookState is dropped.
UMatch ==
  /\ pc = "u_match"
  /\ IF result \in {"Ok", ProcessInaccessible, ModuleInaccessible}
       THEN /\ state' = Unhooked
            /\ uLocal' = NoHook
            /\ DropHandle
            /\ pc' = "u_ret"
            /\ UNCHANGED <<panicAt, uOps>>
       ELSE /\ Panic("u_match")
            /\ uOps' = uOps \cup {"error"}
            /\ UNCHANGED <<state, uLocal, rpc_task, detached>>
  /\ UNCHANGED <<auxVars, envVars, watchVars, sig, ret, target, result, uStart, hStart,
                 hOps, staleSeen, stopHooked>>

\* unhook_spotify has returned to its caller.
URet ==
  /\ pc = "u_ret"
  /\ pc' = CASE ret = "loop" -> "idle"
             [] ret = "hook" -> "probe"
             [] ret = "stop" -> "exited"
  /\ ret' = "none"
  /\ UNCHANGED <<auxVars, envVars, watchVars, sig, state, uLocal, rpc_task, detached,
                 target, result, panicAt, histVars>>

\* ---- AppState::hook_spotify ----

\* if let Hooked(_) = self { self.unhook_spotify().await }
HookEntry ==
  /\ pc = "hook_entry"
  /\ hStart' = state.tag
  /\ hOps' = {}
  /\ staleSeen' = 0
  /\ IF state.tag = "Hooked"
       THEN pc' = "unhook_entry" /\ ret' = "hook"
       ELSE pc' = "probe" /\ UNCHANGED ret
  /\ UNCHANGED <<auxVars, envVars, watchVars, sig, state, uLocal, rpc_task, detached,
                 target, result, panicAt, uStart, uOps, stopHooked>>

\* while let Some(prev_payload) = find_module_by_name(..).unwrap()
Probe ==
  /\ pc = "probe"
  /\ hOps' = hOps \cup {"find"}
  /\ staleSeen' = IF "find" \in hOps THEN staleSeen ELSE Loaded(target)
  /\ \E r \in InjectorOutcomes(target, FALSE) :
       IF r = "Ok"
         THEN /\ pc' = IF Loaded(target) > 0 THEN "stale_getproc" ELSE "load_filter"
              /\ UNCHANGED panicAt
         ELSE Panic("probe")
  /\ UNCHANGED <<auxVars, envVars, watchVars, sig, state, uLocal, rpc_task, detached,
                 ret, target, result, uStart, uOps, hStart, stopHooked>>

\* get_payload_procedure(prev_payload, "stop_rpc").unwrap().unwrap()
StaleGetProc ==
  /\ pc = "stale_getproc"
  /\ hOps' = hOps \cup {"stale_getproc"}
  /\ \E r \in InjectorOutcomes(target, TRUE) \cup {"None"} :
       IF r = "Ok"
         THEN pc' = "stale_stop" /\ UNCHANGED panicAt
         ELSE Panic("stale_getproc")
  /\ UNCHANGED <<auxVars, envVars, watchVars, sig, state, uLocal, rpc_task, detached,
                 ret, target, result, uStart, uOps, hStart, staleSeen, stopHooked>>

\* match stop_rpc.call() { Ok => debug!, Err => error! }
StaleStop ==
  /\ pc = "stale_stop"
  /\ pc' = "stale_eject"
  /\ \E r \in InjectorOutcomes(target, TRUE) :
       hOps' = hOps \cup (IF r = "Ok" THEN {"stale_stop"}
                                      ELSE {"stale_stop", "stale_stop_error"})
  /\ UNCHANGED <<auxVars, envVars, watchVars, sig, state, uLocal, rpc_task, detached,
                 ret, target, result, panicAt, uStart, uOps, hStart, staleSeen,
                 stopHooked>>

\* Variant: `if let` instead of `while let`, one leftover ejected at most.
StaleEject_NoReprobe ==
  /\ pc = "stale_eject"
  /\ hOps' = hOps \cup {"stale_eject"}
  /\ \E r \in InjectorOutcomes(target, TRUE) :
       IF r = "Ok"
         THEN /\ pc' = "load_filter"
              /\ \/ /\ stale[target] > 0
                    /\ stale' = [stale EXCEPT ![target] = @ - 1]
                    /\ UNCHANGED ours
                 \/ /\ ours[target] > 0
                    /\ ours' = [ours EXCEPT ![target] = @ - 1]
                    /\ UNCHANGED stale
              /\ UNCHANGED panicAt
         ELSE Panic("stale_eject") /\ UNCHANGED <<stale, ours>>
  /\ UNCHANGED <<auxVars, procs, watchVars, sig, state, uLocal, rpc_task, detached,
                 ret, target, result, uStart, uOps, hStart, staleSeen, stopHooked>>

\* syringe.eject(prev_payload).unwrap(), then the loop probes again
StaleEject ==
  /\ pc = "stale_eject"
  /\ hOps' = hOps \cup {"stale_eject"}
  /\ \E r \in InjectorOutcomes(target, TRUE) :
       IF r = "Ok"
         THEN /\ pc' = "probe"
              /\ \/ /\ stale[target] > 0
                    /\ stale' = [stale EXCEPT ![target] = @ - 1]
                    /\ UNCHANGED ours
                 \/ /\ ours[target] > 0
                    /\ ours' = [ours EXCEPT ![target] = @ - 1]
                    /\ UNCHANGED stale
              /\ UNCHANGED panicAt
         ELSE Panic("stale_eject") /\ UNCHANGED <<stale, ours>>
  /\ UNCHANGED <<auxVars, procs, watchVars, sig, state, uLocal, rpc_task, detached,
                 ret, target, result, uStart, uOps, hStart, staleSeen, stopHooked>>

\* self.find_and_load_filter_config().await.unwrap()
LoadFilter ==
  /\ pc = "load_filter"
  /\ hOps' = hOps \cup {"load_filter"}
  /\ \E r \in ResolverInputs :
       IF find_and_load_filter_config(r).out = "Ok"
         THEN pc' = "load_blocker" /\ UNCHANGED panicAt
         ELSE Panic("load_filter")
  /\ UNCHANGED <<auxVars, envVars, watchVars, sig, state, uLocal, rpc_task, detached,
                 ret, target, result, uStart, uOps, hStart, staleSeen, stopHooked>>

\* self.find_and_load_blocker().await.unwrap()
LoadBlocker ==
  /\ pc = "load_blocker"
  /\ hOps' = hOps \cup {"load_blocker"}
  /\ \E ok \in BOOLEAN :
       IF ok THEN pc' = "inject" /\ UNCHANGED panicAt
             ELSE Panic("load_blocker")
  /\ UNCHANGED <<auxVars, envVars, watchVars, sig, state, uLocal, rpc_task, detached,
                 ret, target, result, uStart, uOps, hStart, staleSeen, stopHooked>>

\* syringe.inject(payload_path).unwrap()
Inject ==
  /\ pc = "inject"
  /\ hOps' = hOps \cup {"inject"}
  /\ \E r \in InjectorOutcomes(target, FALSE) :
       IF r = "Ok"
         THEN /\ pc' = "start_getproc"
              /\ ours' = [ours EXCEPT ![target] = @ + 1]
              /\ UNCHANGED panicAt
         ELSE Panic("inject") /\ UNCHANGED ours
  /\ UNCHANGED <<auxVars, procs, stale, watchVars, sig, state, uLocal, rpc_task, detached,
                 ret, target, result, uStart, uOps, hStart, staleSeen, stopHooked>>

\* get_payload_procedure(payload, "start_rpc").unwrap().unwrap()
StartGetProc ==
  /\ pc = "start_getproc"
  /\ hOps' = hOps \cup {"start_getproc"}
  /\ \E r \in InjectorOutcomes(target, TRUE) \cup {"None"} :
       IF r = "Ok"
         THEN pc' = "start_call" /\ UNCHANGED panicAt
         ELSE Panic("start_getproc")
  /\ UNCHANGED <<auxVars, envVars, watchVars, sig, state, uLocal, rpc_task, detached,
                 ret, target, result, uStart, uOps, hStart, staleSeen, stopHooked>>

\* start_rpc.call().unwrap()
StartCall ==
  /\ pc = "start_call"
  /\ hOps' = hOps \cup {"start_call"}
  /\ \E r \in InjectorOutcomes(target, TRUE) :
       IF r = "Ok"
         THEN pc' = "spawn" /\ UNCHANGED panicAt
         ELSE Panic("start_call")
  /\ UNCHANGED <<auxVars, envVars, watchVars, sig, state, uLocal, rpc_task, detached,
                 ret, target, result, uStart, uOps, hStart, staleSeen, stopHooked>>

\* async_thread::spawn(..)
Spawn ==
  /\ pc = "spawn"
  /\ hOps' = hOps \cup {"spawn"}
  /\ rpc_task' = "running"
  /\ pc' = "install"
  /\ UNCHANGED <<auxVars, envVars, watchVars, sig, state, uLocal, detached, ret, target,
                 result, panicAt, uStart, uOps, hStart, staleSeen, stopHooked>>

\* *self = Hooked(HookState { payload: payload.try_to_owned().unwrap(), .. })
Install ==
  /\ pc = "install"
  /\ \E r \in InjectorOutcomes(target, TRUE) :
       IF r = "Ok"
         THEN /\ state' = Hooked(target)
              /\ pc' = "h_ret"
              /\ hOps' = hOps \cup {"install"}
              /\ UNCHANGED panicAt
         ELSE Panic("install") /\ UNCHANGED <<state, hOps>>
  /\ UNCHANGED <<auxVars, envVars, watchVars, sig, uLocal, rpc_task, detached, ret,
                 target, result, uStart, uOps, hStart, staleSeen, stopHooked>>

\* hook_spotify has returned; the loop goes back to changed().await.
HRet ==
  /\ pc = "h_ret"
  /\ pc' = "idle"
  /\ UNCHANGED <<auxVars, envVars, watchVars, sig, state, uLocal, rpc_task, detached,
                 ret, target, result, panicAt, histVars>>

\* ---- specification ----
Next ==
  \/ \E p \in Procs, n \in 0..MaxStale : ProcStart(p, n)
  \/ \E p \in Procs : ProcExit(p)
  \/ \E v \in Procs \cup {Stopped} : Publish(v)
  \/ \E s \in {"ctrl_c", "tray_exit"} : Signal(s)
  \/ TaskEnd
  \/ TaskFault
  \/ DetachedEnd
  \/ LoopWake
  \/ Cancel
  \/ StopEntry
  \/ UnhookEntry
  \/ UGetProc
  \/ UStop
  \/ UJoin
  \/ UAlive
  \/ UEject
  \/ UMatch
  \/ URet
  \/ HookEntry
  \/ Probe
  \/ StaleGetProc
  \/ StaleStop
  \/ StaleEject
  \/ LoadFilter
  \/ LoadBlocker
  \/ Inject
  \/ StartGetProc
  \/ StartCall
  \/ Spawn
  \/ Install
  \/ HRet

Spec == Init /\ [][Next]_vars

TypeOK ==
  /\ procs \in [Procs -> {"new", "alive", "dead"}]
  /\ state \in {Unhooked} \cup {Hooked(p) : p \in Procs}
  /\ uLocal \in {NoHook} \cup {Hooked(p) : p \in Procs}
  /\ rpc_task \in {"none", "running", "stopping", "finished", "faulted"}
  /\ detached \in 0..MaxEvents
  /\ \A p \in Procs : stale[p] \in 0..MaxStale /\ ours[p] \in 0..MaxEvents

\* ---- properties ----

\* HookState values in existence: the one in App.state plus the one moved
\* into the local of a running unhook_spotify.
HookCount ==
  (IF state.tag = "Hooked" THEN 1 ELSE 0) + (IF uLocal # NoHook THEN 1 ELSE 0)

\* Modules injected by this controller that sit in a live target.
LiveInjected == {p \in Procs : procs[p] = "alive" /\ ours[p] > 0}

\* RPC threads of this controller that are still running.
TasksRunning ==
  detached + (IF rpc_task \in {"running", "stopping"} THEN 1 ELSE 0)

HookPipeline ==
  {"probe", "stale_getproc", "stale_stop", "stale_eject", "load_filter",
   "load_blocker", "inject", "start_getproc", "start_call", "spawn", "install"}

\* C1: the controller holds at most one ActiveHook in every reachable state
\* (in particular right after each hook_spotify returns), and a held hook
\* pairs exactly one injected module with one task handle.
C1_SingleHook ==
  /\ HookCount <= 1
  /\ state.tag = "Hooked" => rpc_task # "none" /\ ours[state.proc] = 1

\* C1 witness: a second Started with no Stopped in between, hook_spotify done.
C1_Witness ==
  pc = "h_ret" /\ hStart = "Hooked" /\ state.tag = "Hooked"

\* C2 (as claimed): whenever the controller is Unhooked and neither
\* hook_spotify nor unhook_spotify is running, none of its modules is loaded
\* in a live target and none of its RPC threads is running.
C2_NoResourceOutlivesHook ==
  (state = Unhooked /\ pc \in {"idle", "stop_entry", "exited"})
    => (LiveInjected = {} /\ TasksRunning = 0)

\* C3 (as claimed): when the shutdown signal is observed in state Hooked, the
\* controller ends by exiting after a complete unhook_spotify, with none of
\* its modules in a live target and none of its RPC threads running.
C3_ShutdownUnhooks ==
  (Terminated /\ stopHooked = "Hooked")
    => (pc = "exited" /\ uStart = "Hooked" /\ state = Unhooked
        /\ LiveInjected = {} /\ TasksRunning = 0)

\* C4 (as claimed): no failure inside hook_spotify or unhook_spotify
\* (resolution, injection, remote procedure, ejection) stops the
\* Orchestrator loop.
C4_FailuresDoNotStopLoop ==
  ~(pc = "panicked"
    /\ panicAt \in {"load_filter", "load_blocker", "inject", "start_getproc",
                    "start_call", "u_match"})

\* C5 (as claimed): after a hard failure at one of the steps 3..7 no later
\* step of the pipeline runs, the step is not retried, and hook_spotify
\* returns with the state Unhooked.
Steps3to7 ==
  <<"load_filter", "load_blocker", "inject", "start_getproc", "start_call", "spawn">>

C5_AbortReturnsUnhooked ==
  \A i \in 1..Len(Steps3to7) :
    panicAt = Steps3to7[i]
      => /\ \A j \in (i+1)..Len(Steps3to7) : Steps3to7[j] \notin hOps
         /\ "install" \notin hOps
         /\ state = Unhooked
         /\ pc # "panicked"

\* C6 (as claimed): every unhook_spotify that starts Hooked returns with the
\* state Unhooked, whatever the stop call, the join and the ejection yield.
C6_UnhookAlwaysReturns ==
  /\ (pc = "u_ret" /\ uStart = "Hooked") => (state = Unhooked /\ uLocal = NoHook)
  /\ (uStart = "Hooked" /\ "stop" \in uOps) => panicAt \notin {"u_join", "u_match"}

\* C7: unhook_spotify entered while Unhooked returns at once: no Injector
\* call, no join, no error logged, state Unhooked, nothing else touched.
C7_UnhookNoop ==
  [][(pc = "unhook_entry" /\ state = Unhooked /\ pc' # pc)
       => /\ pc' = "u_ret"
          /\ uOps' = {}
          /\ state' = Unhooked
          /\ UNCHANGED <<envVars, uLocal, rpc_task, detached, panicAt>>]_vars

\* C7 witness: Stopped received while already Unhooked, unhook returned.
C7_Witness ==
  pc = "u_ret" /\ uStart = "Unhooked" /\ ret = "loop" /\ uOps = {}

\* C8: when Injector.inject is called the target holds no module with the
\* payload name, whatever number 0..MaxStale it started with.
C8_CleanBeforeInject ==
  pc = "inject" => Loaded(target) = 0

\* C8 witness: the target held two leftover modules at the first probe.
C8_Witness ==
  pc = "inject" /\ staleSeen = 2 /\ "stale_eject" \in hOps

\* C9 (as claimed): a hook_spotify entered while Hooked has, before its first
\* probe and through its pipeline, called stop on h1, joined h1's task and
\* checked h1's target for ejection.
C9_RetiredBeforeInstall ==
  (pc \in HookPipeline /\ hStart = "Hooked")
    => /\ {"stop", "join", "is_alive"} \subseteq uOps
       /\ uLocal = NoHook

\* C10: in unhook_spotify the stop call precedes the join, and the join is
\* complete before the liveness check and before eject.
C10_TeardownOrder ==
  /\ pc = "u_join" => ("stop" \in uOps /\ "join" \notin uOps)
  /\ "join" \in uOps => "stop" \in uOps
  /\ "is_alive" \in uOps => "join" \in uOps
  /\ "eject" \in uOps => ("join" \in uOps /\ "is_alive" \in uOps)

\* C10 witness: eject is about to be called after a completed join.
C10_Witness ==
  pc = "u_eject" /\ {"stop", "join", "is_alive"} \subseteq uOps

\* Positions inside unhook_spotify after the mem::replace.
UnhookTeardown == {"u_getproc", "u_stop", "u_join", "u_alive", "u_eject", "u_match"}

\* C11 (as claimed): whenever unhook_spotify returns after starting Hooked,
\* the hook's RPC thread has been joined, also when the stop call failed with
\* a target-unreachable error.
C11_JoinedOnReturn ==
  (pc = "u_ret" /\ uStart = "Hooked")
    => ("join" \in uOps /\ TasksRunning = 0)

\* C12: when is_alive() answers false at the ejection step, eject is not
\* called in that unhook_spotify, the match sees Ok and the call returns with
\* the state Unhooked.
C12_DeadProcessNoEject ==
  "not_alive" \in uOps
    => /\ "eject" \notin uOps
       /\ pc # "u_eject"
       /\ pc = "u_match" => result = "Ok"
       /\ panicAt # "u_match"
       /\ pc = "u_ret" => (state = Unhooked /\ uLocal = NoHook)

\* C12 witness: unhook_spotify returned after finding the target dead.
C12_Witness ==
  pc = "u_ret" /\ uStart = "Hooked" /\ "not_alive" \in uOps /\ state = Unhooked

\* C13: when eject returns ProcessInaccessible or ModuleInaccessible,
\* unhook_spotify does not panic and returns with the state Unhooked.
C13_BenignEjectAbsorbed ==
  ("eject" \in uOps /\ result \in {ProcessInaccessible, ModuleInaccessible})
    => /\ panicAt # "u_match"
       /\ pc \notin UnhookTeardown \ {"u_match"}
       /\ pc = "u_ret" => (state = Unhooked /\ uLocal = NoHook)

\* C13 witness: eject answered ProcessInaccessible and unhook_spotify returned.
C13_Witness ==
  /\ pc = "u_ret" /\ "eject" \in uOps /\ result = ProcessInaccessible
  /\ state = Unhooked /\ panicAt = "none"

\* C14 (as claimed): a fault inside the RPC thread never terminates the
\* controller, neither when it happens nor when unhook_spotify joins it.
C14_TaskFaultConfined ==
  ~(pc = "panicked" /\ panicAt = "u_join")

\* C16 (as claimed): during the cleanup of leftovers neither a failed stop
\* call nor a failed ejection aborts hook_spotify or stops the controller;
\* after a failed stop call the ejection is still requested.
C16_CleanupFailuresNotFatal ==
  /\ ~(pc = "panicked" /\ panicAt \in {"stale_stop", "stale_eject"})
  /\ (pc = "stale_eject") => "stale_stop" \in hOps

\* A hook_spotify call is in progress (its initial unhook_spotify included).
HookInProgress ==
  \/ pc \in HookPipeline \cup {"hook_entry"}
  \/ ret = "hook" /\ pc \in UnhookTeardown \cup {"unhook_entry", "u_ret"}

\* C15 (as claimed): a hook_spotify call that has started is never dropped
\* by the Orchestrator before it completes or fails.
C15_HookNeverAbandoned ==
  [][HookInProgress => pc' # "stop_entry"]_vars

\* C15 (amended): the Orchestrator drops a running hook_spotify only where it
\* is suspended (the join of its initial unhook, the filter-config or the
\* payload-path resolution); from inject to install it is never dropped.
C15_AbandonedOnlyAtAwait ==
  [][(HookInProgress /\ pc' = "stop_entry")
       => /\ pc \in {"u_join", "load_filter", "load_blocker"}
          /\ "inject" \notin hOps
          /\ state' = Unhooked]_vars

\* C15 witness: shutdown began with a hook_spotify dropped after its probe
\* and before its installation.
C15_Witness ==
  pc = "stop_entry" /\ "find" \in hOps /\ "install" \notin hOps

\* C20: at every position of unhook_spotify after its first statement the
\* state reads Unhooked while the moved-out HookState is still held, and a
\* shutdown observed there sees Unhooked.
C20_UnhookedDuringTeardown ==
  [][/\ pc \in UnhookTeardown => (state = Unhooked /\ uLocal.tag = "Hooked")
     /\ (pc \in UnhookTeardown /\ pc' = "stop_entry")
          => (stopHooked' = "Unhooked" /\ state' = Unhooked)]_vars

\* C20 witness: suspended in the join with the signal pending, the module
\* still in the live target and the RPC thread still running.
C20_Witness ==
  /\ pc = "u_join" /\ state = Unhooked /\ sig # "none"
  /\ procs[uLocal.proc] = "alive" /\ ours[uLocal.proc] > 0
  /\ rpc_task \in {"running", "stopping"}

\* ---- the filter-config resolver on its own ----

InitFilter ==
  /\ CtlInit
  /\ resolver \in ResolverInputs
  /\ inst = InstIdle
  /\ mutex = 0

TryOverride ==
  /\ resolver.pos = "override"
  /\ resolver' = OverrideStep(resolver)
  /\ UNCHANGED <<ctlVars, inst, mutex>>

TrySibling ==
  /\ resolver.pos = "sibling"
  /\ resolver' = SiblingStep(resolver)
  /\ UNCHANGED <<ctlVars, inst, mutex>>

TryDefault ==
  /\ resolver.pos = "default"
  /\ resolver' = DefaultStep(resolver)
  /\ UNCHANGED <<ctlVars, inst, mutex>>

NextFilter ==
  \/ TryOverride
  \/ TrySibling
  \/ TryDefault

SpecFilter == InitFilter /\ [][NextFilter]_vars

\* What each layer holds for the resolver, read off the initial files.
OverrideYields ==
  \/ resolver.ovr0 = "valid"
  \/ resolver.ovr0 = "absent" /\ resolver.ovrWritable /\ resolver.defValid

SiblingYields == resolver.sib0 = "valid"

DefaultYields == resolver.defValid

SiblingTried == resolver.sib0 # "unset" /\ ~OverrideYields

\* C17 (as claimed): the layers are tried in the order override, sibling,
\* default, the first valid one wins, every file layer that is tried creates
\* its absent file with the bundled default, and the resolver fails only
\* when no layer yields a valid config.
C17_CreateIfAbsentEachLayer ==
  resolver.pos = "done"
    => /\ (resolver.ovr0 = "absent" /\ resolver.ovrWritable)
            => resolver.ovr = default_filter_bytes(resolver)
       /\ (SiblingTried /\ resolver.sib0 = "absent")
            => resolver.sib = default_filter_bytes(resolver)
       /\ resolver.out = "Err" => ~(OverrideYields \/ SiblingYields \/ DefaultYields)

\* C17 (amended): as claimed, except that only the override layer creates an
\* absent file; the sibling layer never writes and is skipped when its file
\* is absent.
C17_LayeredLookup ==
  /\ resolver.sib = resolver.sib0
  /\ resolver.pos = "done"
       => /\ resolver.from = (IF OverrideYields THEN "override"
                              ELSE IF SiblingYields THEN "sibling"
                              ELSE IF DefaultYields THEN "default" ELSE "none")
          /\ resolver.out = (IF OverrideYields \/ SiblingYields \/ DefaultYields
                               THEN "Ok" ELSE "Err")
          /\ resolver.ovr = (IF resolver.ovr0 = "absent" /\ resolver.ovrWritable
                               THEN default_filter_bytes(resolver)
                               ELSE resolver.ovr0)

\* C17 witness: an invalid override and an absent sibling were passed over in
\* order and the bundled default was returned.
C17_Witness ==
  /\ resolver.pos = "done" /\ resolver.from = "default" /\ resolver.out = "Ok"
  /\ resolver.ovr0 = "invalid" /\ resolver.sib0 = "absent" /\ resolver.sib = "absent"

\* ---- main(): the singleton guard ----

InitSingleton ==
  /\ CtlInit
  /\ resolver = ResolverIdle
  /\ inst \in [Instances -> {[pc |-> "main", ignore |-> b, calls |-> FALSE] :
                             b \in BOOLEAN}]
  /\ mutex = 0

\* NamedMutex::try_lock: Some(guard) when free, None when another instance
\* holds it, or an error.
TryLockOutcomes == IF mutex = 0 THEN {"Some", "Err"} ELSE {"None", "Err"}

\* if ARGS.ignore_singleton { run().await } else { NamedMutex::new(..) .. }
MainStart(i) ==
  /\ inst[i].pc = "main"
  /\ inst' = [inst EXCEPT ![i].pc = IF inst[i].ignore THEN "run" ELSE "try_lock"]
  /\ UNCHANGED <<ctlVars, resolver, mutex>>

\* Variant: `Ok(Some(_)) => run().await`, the guard is released at once.
MainTryLock_DropGuard(i) ==
  /\ inst[i].pc = "try_lock"
  /\ \E o \in TryLockOutcomes :
       /\ inst' = [inst EXCEPT ![i].pc = CASE o = "Some" -> "run"
                                            [] o = "None" -> "warned"
                                            [] o = "Err"  -> "lock_error"]
       /\ UNCHANGED mutex
  /\ UNCHANGED <<ctlVars, resolver>>

\* match lock.try_lock() { Ok(Some(_guard)) => run().await,
\*                         Ok(None) => warn!, Err(e) => error! }
MainTryLock(i) ==
  /\ inst[i].pc = "try_lock"
  /\ \E o \in TryLockOutcomes :
       /\ inst' = [inst EXCEPT ![i].pc = CASE o = "Some" -> "run"
                                            [] o = "None" -> "warned"
                                            [] o = "Err"  -> "lock_error"]
       /\ mutex' = IF o = "Some" THEN i ELSE mutex
  /\ UNCHANGED <<ctlVars, resolver>>

\* run(): the instance drives its Orchestrator and calls the Injector.
RunInjectorCall(i) ==
  /\ inst[i].pc = "run"
  /\ ~inst[i].calls
  /\ inst' = [inst EXCEPT ![i].calls = TRUE]
  /\ UNCHANGED <<ctlVars, resolver, mutex>>

\* run() returns or panics; _guard goes out of scope with the match arm.
RunEnd(i, how) ==
  /\ inst[i].pc = "run"
  /\ inst' = [inst EXCEPT ![i].pc = how]
  /\ mutex' = IF mutex = i THEN 0 ELSE mutex
  /\ UNCHANGED <<ctlVars, resolver>>

NextSingleton ==
  \/ \E i \in Instances : MainStart(i)
  \/ \E i \in Instances : MainTryLock(i)
  \/ \E i \in Instances : RunInjectorCall(i)
  \/ \E i \in Instances, how \in {"exited", "panicked"} : RunEnd(i, how)

SpecSingleton == InitSingleton /\ [][NextSingleton]_vars

\* Instances started without --ignore-singleton that are inside run().
GuardedRunning == {i \in Instances : ~inst[i].ignore /\ inst[i].pc = "run"}

\* C18: at most one instance started without --ignore-singleton is inside
\* run(); it holds the mutex for as long as it is there, the mutex is held by
\* nobody else, and an instance that did not get the guard makes no Injector
\* call.
C18_SingletonRun ==
  /\ Cardinality(GuardedRunning) <= 1
  /\ \A i \in GuardedRunning : mutex = i
  /\ mutex # 0 => mutex \in GuardedRunning
  /\ \A i \in Instances :
       inst[i].pc \in {"main", "try_lock", "warned", "lock_error"} => ~inst[i].calls

\* C18 witness: one instance runs and has called the Injector while another,
\* started without --ignore-singleton, found the guard held and gave up.
C18_Witness ==
  \E i, j \in Instances :
    /\ i # j /\ ~inst[i].ignore /\ ~inst[j].ignore
    /\ inst[i].pc = "run" /\ inst[i].calls /\ mutex = i
    /\ inst[j].pc = "warned" /\ ~inst[j].calls

\* ---- convergence of the loop ----

\* The controller task: whatever step it is ready to take.
CtlStep ==
  \/ LoopWake \/ Cancel \/ StopEntry
  \/ UnhookEntry \/ UGetProc \/ UStop \/ UJoin \/ UAlive \/ UEject \/ UMatch \/ URet
  \/ HookEntry \/ Probe \/ StaleGetProc \/ StaleStop \/ StaleEject
  \/ LoadFilter \/ LoadBlocker \/ Inject \/ StartGetProc \/ StartCall
  \/ Spawn \/ Install \/ HRet

\* The runtime keeps polling the controller task, and an RPC thread that was
\* told to stop returns.
FairSpec == Spec /\ WF_vars(CtlStep) /\ WF_vars(TaskEnd)

\* The scanner has sent its last value.
StreamEnded == nEvents = MaxEvents

\* C19: the loop dispatches on the value the watch holds when it wakes; once
\* the stream has ended on Stopped the state becomes and stays Unhooked; once
\* it has ended on Running(p) the state becomes Hooked on p unless a step
\* fails (the controller panics) or a shutdown signal arrives.
C19_ConvergesToLatest ==
  /\ [][(pc = "idle" /\ pc' \in {"hook_entry", "unhook_entry"})
          => /\ ~changed'
             /\ IF watch = Stopped THEN pc' = "unhook_entry"
                                   ELSE pc' = "hook_entry" /\ target' = watch]_vars
  /\ []((StreamEnded /\ watch = Stopped) => <>[](state = Unhooked))
  /\ \A p \in Procs :
       []((StreamEnded /\ watch = p)
            => <>(state = Hooked(p) \/ pc = "panicked" \/ sig # "none"))

\* C19 witness: every published value has been consumed by a single
\* hook_spotify (no unhook ever ran), and the state is Hooked on the last one.
C19_Witness ==
  /\ pc = "idle" /\ ~changed /\ StreamEnded /\ nEvents >= 2
  /\ watch # Stopped /\ state = Hooked(watch)
  /\ uStart = "none" /\ sig = "none"

====
